---- MODULE Spec2Model ----
(***************************************************************************)
(* Data-access layer of bookworld (src/services/openLibrary.ts):           *)
(* browseBooks with its sessionStorage fallback, getBookDetails with its   *)
(* two best-effort enrichment requests, and the three category helpers.    *)
(* Every await of the source is a suspension point: one action per         *)
(* continuation.                                                           *)
(***************************************************************************)
EXTENDS Integers, Sequences, FiniteSets, TLC

VARIABLES
    catalog,      \* upstream search index: request URL -> JSON body it serves
    cache,        \* sessionStorage: key -> string
    calls,        \* frames of the browseBooks calls made by the application
    settled,      \* outcome of the browseBooks promise that settled last
    started,      \* number of browseBooks calls the application has made
    fetched,      \* history: URL -> the body of its last completed successful fetch
    detail,       \* frame of the application's getBookDetails call
    helper        \* frame of the application's category helper call

browseVars == <<catalog, cache, calls, settled, started, fetched>>
detailVars == <<detail>>
helperVars == <<helper>>
vars == <<catalog, cache, calls, settled, started, fetched, detail, helper>>

----------------------------------------------------------------------------
(* Bounds of the model *)

MaxInFlight == 2      \* browseBooks calls of the application in flight at once
MaxCalls == 3         \* browseBooks calls the application makes in one session
MaxPage == 3          \* largest page number requested
MaxLimit == 3         \* largest page size requested, besides the default

----------------------------------------------------------------------------
(* JavaScript values *)

UndefinedNum == -1    \* an omitted numeric option
Null == [text |-> <<>>]                 \* getItem's answer for a missing key
NoValue == [books |-> <<>>, total |-> UndefinedNum]
NoError == [name |-> "", message |-> <<>>]
None == [isNone |-> TRUE, state |-> "none", value |-> NoValue, source |-> "none"]

OPEN_LIBRARY_URL == "https://openlibrary.org"

FetchError(message) == [name |-> "FetchError", message |-> message]

BookNotFoundError(workId) ==
    [name |-> "BookNotFoundError", message |-> <<"Book with ID \"", workId, "\" not found.">>]

\* what fetch() rejects with, what response.json() rejects with, and what a
\* property read of undefined throws
NetworkTypeError == [name |-> "TypeError", message |-> <<"Failed to fetch">>]
JsonSyntaxError == [name |-> "SyntaxError", message |-> <<"Unexpected token">>]
UndefinedTypeError == [name |-> "TypeError", message |-> <<"Cannot read properties of undefined">>]

----------------------------------------------------------------------------
(* browseBooks: request construction *)

BrowseOptions(query, genres, year, sort, limit, page) ==
    [query |-> query, genres |-> genres, year |-> year, sort |-> sort,
     limit |-> limit, page |-> page]

\* URLSearchParams.set: replace the first pair of that name, else append
ParamSet(params, name, value) ==
    IF \E i \in 1..Len(params) : params[i][1] = name
    THEN [i \in 1..Len(params) |-> IF params[i][1] = name THEN <<name, value>> ELSE params[i]]
    ELSE Append(params, <<name, value>>)

\* genres.forEach(genre => searchParams.append('subject', genre))
RECURSIVE AppendSubjects(_, _)
AppendSubjects(params, genres) ==
    IF genres = <<>> THEN params
    ELSE AppendSubjects(Append(params, <<"subject", Head(genres)>>), Tail(genres))

\* variant: the offset is left out of the query string
searchParams_noOffset(options) ==
    LET limit == IF options.limit = UndefinedNum THEN 40 ELSE options.limit
        p1 == ParamSet(<<>>, "q", IF options.query = "" THEN "*" ELSE options.query)
        p2 == IF Len(options.genres) > 0 THEN AppendSubjects(p1, options.genres) ELSE p1
        p3 == IF options.year # "" THEN ParamSet(p2, "publish_year", options.year) ELSE p2
        p4 == IF options.sort # "" /\ options.sort # "relevance"
              THEN ParamSet(p3, "sort", options.sort) ELSE p3
        p6 == ParamSet(p4, "language", "eng")
        p7 == ParamSet(p6, "limit", ToString(limit))
    IN ParamSet(p7, "fields", "key,title,author_name,cover_i,first_publish_year")

\* variant: the offset is page * limit
searchParams_pageTimesLimit(options) ==
    LET limit == IF options.limit = UndefinedNum THEN 40 ELSE options.limit
        page == IF options.page = UndefinedNum THEN 1 ELSE options.page
        p1 == ParamSet(<<>>, "q", IF options.query = "" THEN "*" ELSE options.query)
        p2 == IF Len(options.genres) > 0 THEN AppendSubjects(p1, options.genres) ELSE p1
        p3 == IF options.year # "" THEN ParamSet(p2, "publish_year", options.year) ELSE p2
        p4 == IF options.sort # "" /\ options.sort # "relevance"
              THEN ParamSet(p3, "sort", options.sort) ELSE p3
        offset == page * limit
        p5 == ParamSet(p4, "offset", ToString(offset))
        p6 == ParamSet(p5, "language", "eng")
        p7 == ParamSet(p6, "limit", ToString(limit))
    IN ParamSet(p7, "fields", "key,title,author_name,cover_i,first_publish_year")

searchParams(options) ==
    LET limit == IF options.limit = UndefinedNum THEN 40 ELSE options.limit
        page == IF options.page = UndefinedNum THEN 1 ELSE options.page
        p1 == ParamSet(<<>>, "q", IF options.query = "" THEN "*" ELSE options.query)
        p2 == IF Len(options.genres) > 0 THEN AppendSubjects(p1, options.genres) ELSE p1
        p3 == IF options.year # "" THEN ParamSet(p2, "publish_year", options.year) ELSE p2
        p4 == IF options.sort # "" /\ options.sort # "relevance"
              THEN ParamSet(p3, "sort", options.sort) ELSE p3
        offset == (page - 1) * limit
        p5 == ParamSet(p4, "offset", ToString(offset))
        p6 == ParamSet(p5, "language", "eng")
        p7 == ParamSet(p6, "limit", ToString(limit))
    IN ParamSet(p7, "fields", "key,title,author_name,cover_i,first_publish_year")

requestUrl(options) == <<OPEN_LIBRARY_URL, "/search.json?", searchParams(options)>>

\* variant: one key for every request
cacheKey_shared(url) == <<"browse_", <<OPEN_LIBRARY_URL, "/search.json?", <<>>>>>>

cacheKey(url) == <<"browse_", url>>

----------------------------------------------------------------------------
(* sessionStorage and JSON *)

\* variant: storing an item evicts every other item
setItem_evicting(store, key, value) ==
    [k \in {key} |-> value]

setItem(store, key, value) ==
    [k \in (DOMAIN store) \cup {key} |-> IF k = key THEN value ELSE store[k]]

getItem(store, key) == IF key \in DOMAIN store THEN store[key] ELSE Null

Truthy(str) == str # Null

RECURSIVE BookTokens(_)
BookTokens(books) ==
    IF books = <<>> THEN <<>>
    ELSE <<"{key:", Head(books).key, ",title:", Head(books).title, "}">> \o BookTokens(Tail(books))

\* JSON.stringify of a {books, total} pair: the text, token by token
JSONstringify(result) ==
    [text |-> <<"{books:[">> \o BookTokens(result.books)
              \o <<"],total:", ToString(result.total), "}">>]

MaxNumFound == 3
ParseNumber(tok) == CHOOSE n \in 0..(MaxNumFound + 1) : ToString(n) = tok

\* JSON.parse of such a text
JSONparse(str) ==
    LET t == str.text
        n == (Len(t) - 4) \div 5
    IN [books |-> [i \in 1..n |-> [key |-> t[5 * i - 2], title |-> t[5 * i]]],
        total |-> ParseNumber(t[Len(t) - 1])]

----------------------------------------------------------------------------
(* The upstream search endpoint *)

Doc(key, title) == [key |-> key, title |-> title]

\* two bodies the index may serve for a request; each holds a document
\* without identifier
SearchBodies ==
    { [docs |-> <<Doc("/works/OL1W", "Dune"), Doc("", "untitled"), Doc("/works/OL2W", "Dune Messiah")>>,
       numFound |-> 3],
      [docs |-> <<Doc("", "untitled")>>, numFound |-> 1] }

InitialBody == CHOOSE body \in SearchBodies : body.numFound = 3

ErrorStatuses == {500}

RejectedFetch == [type |-> "error", ok |-> FALSE, status |-> 0, parsable |-> FALSE,
                  hasDocs |-> FALSE, docs |-> <<>>, numFound |-> 0]
StatusResponse(status) == [type |-> "basic", ok |-> FALSE, status |-> status, parsable |-> FALSE,
                  hasDocs |-> FALSE, docs |-> <<>>, numFound |-> 0]
UnparsableResponse == [type |-> "basic", ok |-> TRUE, status |-> 200, parsable |-> FALSE,
                  hasDocs |-> FALSE, docs |-> <<>>, numFound |-> 0]
MalformedResponse == [type |-> "basic", ok |-> TRUE, status |-> 200, parsable |-> TRUE,
                  hasDocs |-> FALSE, docs |-> <<>>, numFound |-> 0]
OkResponse(body) == [type |-> "basic", ok |-> TRUE, status |-> 200, parsable |-> TRUE,
                  hasDocs |-> TRUE, docs |-> body.docs, numFound |-> body.numFound]

\* everything a search request may be answered with while the index holds body
SearchResponses(body) ==
    {RejectedFetch, UnparsableResponse, MalformedResponse, OkResponse(body)}
    \cup {StatusResponse(s) : s \in ErrorStatuses}

----------------------------------------------------------------------------
(* browseBooks: the code after each await, as functions of the call's frame *)
(* and of the store; each yields the promise's outcome and the store after  *)

Outcome(state, value, reason, failure, source, store, read, wrote) ==
    [state |-> state, value |-> value, reason |-> reason, failure |-> failure,
     source |-> source, store |-> store, read |-> read, wrote |-> wrote]

\* variant: the handler rethrows without looking at the store
browseCatch_rethrow(frame, error, failure, store) ==
    Outcome("rejected", NoValue, error, failure, "none", store, {}, {})

\* catch (error) { ... getItem(cacheKey) ... return JSON.parse / throw error }
browseCatch(frame, error, failure, store) ==
    LET cachedData == getItem(store, frame.cacheKey)
    IN IF Truthy(cachedData)
       THEN Outcome("fulfilled", JSONparse(cachedData), NoError, failure, "cache",
                    store, {frame.cacheKey}, {})
       ELSE Outcome("rejected", NoValue, error, failure, "none",
                    store, {frame.cacheKey}, {})

\* const response = await fetch(requestUrl); if (!response.ok) throw new FetchError(...)
browseAfterFetch(frame, response, store) ==
    IF response.type = "error"
    THEN browseCatch(frame, NetworkTypeError, "network", store)
    ELSE IF ~response.ok
    THEN browseCatch(frame,
             FetchError(<<"Network response was not ok, status: ", ToString(response.status)>>),
             "status", store)
    ELSE Outcome("pending", NoValue, NoError, "", "none", store, {}, {})

\* data.docs.filter(doc => doc.key)
RECURSIVE filterDocs(_)
filterDocs(docs) ==
    IF docs = <<>> THEN <<>>
    ELSE IF Head(docs).key # "" THEN <<Head(docs)>> \o filterDocs(Tail(docs))
    ELSE filterDocs(Tail(docs))

\* variant: the unfiltered documents are stored and returned
browseAfterJson_unfiltered(frame, store) ==
    LET response == frame.response
        result == [books |-> response.docs, total |-> response.numFound]
    IN IF ~response.parsable
       THEN browseCatch(frame, JsonSyntaxError, "json", store)
       ELSE IF ~response.hasDocs
       THEN browseCatch(frame, UndefinedTypeError, "docs", store)
       ELSE Outcome("fulfilled", result, NoError, "", "fetch",
                    setItem(store, frame.cacheKey, JSONstringify(result)),
                    {}, {frame.cacheKey})

\* variant: the documents are filtered by title, not by identifier
browseAfterJson_filtersTitle(frame, store) ==
    LET response == frame.response
        result == [books |-> SelectSeq(response.docs, LAMBDA doc : doc.title # ""),
                   total |-> response.numFound]
    IN IF ~response.parsable
       THEN browseCatch(frame, JsonSyntaxError, "json", store)
       ELSE IF ~response.hasDocs
       THEN browseCatch(frame, UndefinedTypeError, "docs", store)
       ELSE Outcome("fulfilled", result, NoError, "", "fetch",
                    setItem(store, frame.cacheKey, JSONstringify(result)),
                    {}, {frame.cacheKey})

\* variant: the filtered pair is stored, the unfiltered documents are returned
browseAfterJson_returnsDocs(frame, store) ==
    LET response == frame.response
        result == [books |-> filterDocs(response.docs), total |-> response.numFound]
    IN IF ~response.parsable
       THEN browseCatch(frame, JsonSyntaxError, "json", store)
       ELSE IF ~response.hasDocs
       THEN browseCatch(frame, UndefinedTypeError, "docs", store)
       ELSE Outcome("fulfilled", [books |-> response.docs, total |-> response.numFound],
                    NoError, "", "fetch",
                    setItem(store, frame.cacheKey, JSONstringify(result)),
                    {}, {frame.cacheKey})

\* const data = await response.json(); ... setItem(cacheKey, JSON.stringify(result)); return result
browseAfterJson(frame, store) ==
    LET response == frame.response
        result == [books |-> filterDocs(response.docs), total |-> response.numFound]
    IN IF ~response.parsable
       THEN browseCatch(frame, JsonSyntaxError, "json", store)
       ELSE IF ~response.hasDocs
       THEN browseCatch(frame, UndefinedTypeError, "docs", store)
       ELSE Outcome("fulfilled", result, NoError, "", "fetch",
                    setItem(store, frame.cacheKey, JSONstringify(result)),
                    {}, {frame.cacheKey})

\* lines 34-60 and the request of line 63: the frame of a call awaiting fetch
browseBooks(options) ==
    [pc |-> "fetch", options |-> options, requestUrl |-> requestUrl(options),
     cacheKey |-> cacheKey(requestUrl(options)), response |-> RejectedFetch]

NoOptions == BrowseOptions("", <<>>, "", "", UndefinedNum, UndefinedNum)
NoUrl == <<"", "", <<>>>>
IdleFrame == [pc |-> "idle", options |-> NoOptions, requestUrl |-> NoUrl,
              cacheKey |-> cacheKey(NoUrl), response |-> RejectedFetch]

----------------------------------------------------------------------------
(* The application's browseBooks calls *)

\* the options the application browses with: two pages of one query
BrowseInputs ==
    { BrowseOptions("dune", <<>>, "", "", 10, 1),
      BrowseOptions("dune", <<>>, "", "", 10, 2) }

Urls == {requestUrl(o) : o \in BrowseInputs}

\* the options requests are built from: every combination of the filters,
\* with page and limit given or omitted
RequestInputs ==
    { BrowseOptions(query, genres, year, sort, limit, page) :
        query \in {"", "dune"}, genres \in {<<>>, <<"love", "fantasy">>},
        year \in {"", "1965"}, sort \in {"", "relevance", "new"},
        limit \in {UndefinedNum} \cup (1..MaxLimit),
        page \in {UndefinedNum} \cup (1..MaxPage) }

Slots == 1..MaxInFlight

InFlight(c) == calls[c].frame.pc # "idle"

\* after: the call directly follows the call recorded in settled, for the same
\*        URL, with no other call in flight since and the upstream unchanged
\*        since that call began
\* clean: the upstream has not changed what it serves for the URL since the
\*        call began
IdleCall == [frame |-> IdleFrame, after |-> FALSE, clean |-> TRUE]

NoSettled == [state |-> "none", options |-> NoOptions, requestUrl |-> NoUrl,
              cacheKey |-> cacheKey(NoUrl), value |-> NoValue, reason |-> NoError,
              failure |-> "", source |-> "none", read |-> {}, wrote |-> {},
              clean |-> FALSE, pred |-> None]

Settle(call, out) ==
    [state |-> out.state, options |-> call.frame.options,
     requestUrl |-> call.frame.requestUrl, cacheKey |-> call.frame.cacheKey,
     value |-> out.value, reason |-> out.reason, failure |-> out.failure,
     source |-> out.source, read |-> out.read, wrote |-> out.wrote,
     clean |-> call.clean,
     pred |-> IF call.after
              THEN [isNone |-> FALSE, state |-> settled.state, value |-> settled.value,
                    source |-> settled.source]
              ELSE None]

\* the promise of call c settles with out: the frame is gone, the histories
\* record the outcome (pred: the outcome of the call this one directly followed)
Complete(c, out) ==
    LET call == calls[c]
    IN /\ cache' = out.store
       /\ calls' = [d \in Slots |->
                      IF d = c THEN IdleCall ELSE [calls[d] EXCEPT !.after = FALSE]]
       /\ settled' = Settle(call, out)
       /\ fetched' = IF out.source = "fetch"
                     THEN setItem(fetched, call.frame.requestUrl,
                                  [docs |-> call.frame.response.docs,
                                   numFound |-> call.frame.response.numFound,
                                   by |-> call.frame.options])
                     ELSE fetched

\* the application calls browseBooks(options); the call runs up to await fetch
BrowseStart(options) ==
    /\ started < MaxCalls
    /\ started' = started + 1
    /\ \E c \in Slots : ~InFlight(c)
    /\ LET c == CHOOSE d \in Slots : ~InFlight(d) /\ \A e \in Slots : ~InFlight(e) => d <= e
           frame == browseBooks(options)
       IN calls' = [d \in Slots |->
                      IF d = c
                      THEN [frame |-> frame,
                            after |-> /\ \A e \in Slots : ~InFlight(e)
                                      /\ settled.state # "none"
                                      /\ settled.requestUrl = frame.requestUrl
                                      /\ settled.clean,
                            clean |-> TRUE]
                      ELSE [calls[d] EXCEPT !.after = FALSE]]
    /\ UNCHANGED <<catalog, cache, settled, fetched, detail, helper>>

\* the application's first browseBooks call, with any options
FirstRequest(options) ==
    /\ \A c \in Slots : ~InFlight(c)
    /\ started = 0
    /\ BrowseStart(options)

\* fetch settles for call c with response
BrowseFetchSettle(c, response) ==
    /\ calls[c].frame.pc = "fetch"
    /\ LET out == browseAfterFetch(calls[c].frame, response, cache)
       IN IF out.state = "pending"
          THEN /\ calls' = [calls EXCEPT ![c].frame.pc = "json",
                                         ![c].frame.response = response]
               /\ UNCHANGED <<cache, settled, fetched>>
          ELSE Complete(c, out)
    /\ UNCHANGED <<catalog, started, detail, helper>>

\* the upstream answers the request of call c from its index, or fails to
UpstreamResponds(c) ==
    /\ calls[c].frame.pc = "fetch"
    /\ \E response \in SearchResponses(catalog[calls[c].frame.requestUrl]) :
          BrowseFetchSettle(c, response)

\* response.json() settles for call c
BrowseJsonSettle(c) ==
    /\ calls[c].frame.pc = "json"
    /\ Complete(c, browseAfterJson(calls[c].frame, cache))
    /\ UNCHANGED <<catalog, started, detail, helper>>

\* the upstream index changes what it serves for url
UpstreamMutation(url, body) ==
    /\ catalog[url] # body
    /\ catalog' = [catalog EXCEPT ![url] = body]
    /\ calls' = [d \in Slots |->
                   IF InFlight(d) /\ calls[d].frame.requestUrl = url
                   THEN [calls[d] EXCEPT !.after = FALSE, !.clean = FALSE]
                   ELSE calls[d]]
    /\ settled' = IF settled.requestUrl = url THEN [settled EXCEPT !.clean = FALSE] ELSE settled
    /\ UNCHANGED <<cache, fetched, started, detail, helper>>

----------------------------------------------------------------------------
(* getBookDetails: records and upstream answers *)

NoCover == 0          \* cover_i absent
Undefined == [def |-> FALSE, list |-> <<>>]
Array(list) == [def |-> TRUE, list |-> list]

NoLinks == [def |-> FALSE, goodreads |-> <<>>, amazon |-> <<>>, google |-> <<>>]
NoAuthorDetails == [def |-> FALSE, name |-> "", bio |-> "", birth_date |-> "", death_date |-> ""]

\* an entry of a work's authors list: {} or {author: {}} or {author: {key}}
AuthorRef(hasAuthor, key) == [hasAuthor |-> hasAuthor, key |-> key]

\* a work record as the works endpoint serves it
Work(cover_i, authors, author_name) ==
    [cover_i |-> cover_i, authors |-> authors, author_name |-> author_name,
     external_links |-> NoLinks, author_details |-> NoAuthorDetails]

NoWork == Work(NoCover, Undefined, Undefined)

AuthorsValues ==
    { Undefined,
      Array(<<>>),
      Array(<<AuthorRef(FALSE, "")>>),
      Array(<<AuthorRef(TRUE, "")>>),
      Array(<<AuthorRef(TRUE, "/authors/OL1A"), AuthorRef(TRUE, "/authors/OL2A")>>) }

Works ==
    { Work(c, a, n) : c \in {NoCover, 11}, a \in AuthorsValues,
                      n \in {Undefined, Array(<<"F. Herbert">>)} }

\* an entry of the editions list
Edition(covers, hasIdentifiers, goodreads, amazon, google) ==
    [covers |-> covers, hasIdentifiers |-> hasIdentifiers,
     goodreads |-> goodreads, amazon |-> amazon, google |-> google]

\* bodies of the editions endpoint: entries missing, no entries, entries
EditionsBodies ==
    { Undefined,
      Array(<<>>),
      Array(<<Edition(<<22, 23>>, FALSE, <<>>, <<>>, <<>>)>>),
      Array(<<Edition(<<>>, TRUE, <<"g1">>, <<>>, <<"gg1", "gg2">>)>>),
      Array(<<Edition(<<22>>, TRUE, <<>>, <<"a1">>, <<>>)>>),
      Array(<<Edition(<<>>, TRUE, <<>>, <<>>, <<>>)>>) }

AuthorData(isNull, name, bio, birth_date, death_date) ==
    [isNull |-> isNull, name |-> name, bio |-> bio,
     birth_date |-> birth_date, death_date |-> death_date]

\* bodies of the author endpoint: null, a full record, a record with a name only
AuthorBodies ==
    { AuthorData(TRUE, "", "", "", ""),
      AuthorData(FALSE, "Frank Herbert", "American author", "1920", "1986"),
      AuthorData(FALSE, "Frank Herbert", "", "", "") }

DetailStatuses == {404, 500}

HttpResponse(type, ok, status, parsable, json) ==
    [type |-> type, ok |-> ok, status |-> status, parsable |-> parsable, json |-> json]

\* everything a request may be answered with, given the bodies of its endpoint
HttpResponses(bodies, nobody) ==
    {HttpResponse("error", FALSE, 0, FALSE, nobody),
     HttpResponse("basic", TRUE, 200, FALSE, nobody)}
    \cup {HttpResponse("basic", FALSE, st, FALSE, nobody) : st \in DetailStatuses}
    \cup {HttpResponse("basic", TRUE, 200, TRUE, b) : b \in bodies}

WorkIds == {"OL1W", "OL404W"}

----------------------------------------------------------------------------
(* getBookDetails: the code after each await, as functions of the call's frame *)

Request(kind, url) == [kind |-> kind, url |-> url]

IdleDetail ==
    [pc |-> "idle", workId |-> "", data |-> NoWork, authorKey |-> "",
     response |-> HttpResponse("error", FALSE, 0, FALSE, NoWork), reason |-> NoError,
     requests |-> <<>>, answers |-> <<>>]

\* line 86: the frame of a call awaiting the fetch of the work record
getBookDetails(workId) ==
    [IdleDetail EXCEPT
        !.pc = "primary", !.workId = workId,
        !.requests = <<Request("primary", <<OPEN_LIBRARY_URL, "/works/", workId, ".json">>)>>]

Throw(frame, error) == [frame EXCEPT !.pc = "rejected", !.reason = error]

\* line 146: return data
ReturnData(frame) == [frame EXCEPT !.pc = "fulfilled"]

\* variant: every non-success status raises the generic error
detailsAfterPrimary_generic(frame, response) ==
    IF response.type = "error" THEN Throw(frame, NetworkTypeError)
    ELSE IF ~response.ok
    THEN Throw(frame, FetchError(<<"Failed to fetch book details from Open Library.">>))
    ELSE [frame EXCEPT !.pc = "primaryJson", !.response = response]

\* lines 87-93: the status check of the work response
detailsAfterPrimary(frame, response) ==
    IF response.type = "error" THEN Throw(frame, NetworkTypeError)
    ELSE IF ~response.ok
    THEN IF response.status = 404
         THEN Throw(frame, BookNotFoundError(frame.workId))
         ELSE Throw(frame, FetchError(<<"Failed to fetch book details from Open Library.">>))
    ELSE [frame EXCEPT !.pc = "primaryJson", !.response = response]

\* variant: the editions request and the author request are issued together
detailsAfterPrimaryJson_both(frame) ==
    IF ~frame.response.parsable THEN Throw(frame, JsonSyntaxError)
    ELSE [frame EXCEPT
            !.pc = "edition", !.data = frame.response.json,
            !.requests = frame.requests \o
                <<Request("edition", <<OPEN_LIBRARY_URL, "/works/", frame.workId,
                                       "/editions.json?limit=1&language=eng">>),
                  Request("author", <<OPEN_LIBRARY_URL, "undefined", ".json">>)>>]

\* lines 93-97: the work record is parsed, the editions request is issued
detailsAfterPrimaryJson(frame) ==
    IF ~frame.response.parsable THEN Throw(frame, JsonSyntaxError)
    ELSE [frame EXCEPT
            !.pc = "edition", !.data = frame.response.json,
            !.requests = Append(frame.requests,
                Request("edition", <<OPEN_LIBRARY_URL, "/works/", frame.workId,
                                     "/editions.json?limit=1&language=eng">>))]

\* lines 127-130 and 146: the author reference is examined, outside any try
authorStep(frame) ==
    LET authors == frame.data.authors
    IN IF ~authors.def THEN ReturnData(frame)
       ELSE IF authors.list = <<>> THEN Throw(frame, UndefinedTypeError)
       ELSE IF ~authors.list[1].hasAuthor THEN ReturnData(frame)
       ELSE LET authorKey == IF authors.list[1].key = "" THEN "undefined"
                             ELSE authors.list[1].key
            IN [frame EXCEPT
                  !.pc = "author", !.authorKey = authorKey,
                  !.requests = Append(frame.requests,
                      Request("author", <<OPEN_LIBRARY_URL, authorKey, ".json">>))]

ExternalLink(prefix, ids) == IF Len(ids) > 0 /\ ids[1] # "" THEN <<prefix, ids[1]>> ELSE <<>>

\* lines 101-118: cover and external links are taken from the edition
applyEdition(data, edition) ==
    [data EXCEPT
        !.cover_i = IF Len(edition.covers) > 0 THEN edition.covers[1] ELSE data.cover_i,
        !.external_links =
            IF edition.hasIdentifiers
            THEN [def |-> TRUE,
                  goodreads |-> ExternalLink("https://www.goodreads.com/book/show/", edition.goodreads),
                  amazon |-> ExternalLink("https://www.amazon.com/dp/", edition.amazon),
                  google |-> ExternalLink("https://books.google.com/books?id=", edition.google)]
            ELSE data.external_links]

\* lines 97-98 and 121-123: the status check of the editions response
detailsAfterEdition(frame, response) ==
    IF response.type = "error" THEN authorStep(frame)
    ELSE IF response.ok THEN [frame EXCEPT !.pc = "editionJson", !.response = response]
    ELSE authorStep(frame)

\* lines 99-123: the editions body is parsed and applied
detailsAfterEditionJson(frame) ==
    LET editionsData == frame.response.json
    IN IF ~frame.response.parsable THEN authorStep(frame)
       ELSE IF ~editionsData.def THEN authorStep(frame)
       ELSE IF Len(editionsData.list) > 0
       THEN authorStep([frame EXCEPT !.data = applyEdition(frame.data, editionsData.list[1])])
       ELSE authorStep(frame)

\* variant: a failed author lookup clears the author names
detailsAfterAuthor_clearsName(frame, response) ==
    IF response.type = "error"
    THEN ReturnData([frame EXCEPT !.data.author_name = Undefined])
    ELSE IF response.ok THEN [frame EXCEPT !.pc = "authorJson", !.response = response]
    ELSE ReturnData([frame EXCEPT !.data.author_name = Undefined])

\* lines 130-131 and 141-146: the status check of the author response
detailsAfterAuthor(frame, response) ==
    IF response.type = "error" THEN ReturnData(frame)
    ELSE IF response.ok THEN [frame EXCEPT !.pc = "authorJson", !.response = response]
    ELSE ReturnData(frame)

\* lines 132-146: the author record is parsed and applied
detailsAfterAuthorJson(frame) ==
    LET authorData == frame.response.json
    IN IF ~frame.response.parsable THEN ReturnData(frame)
       ELSE IF authorData.isNull THEN ReturnData(frame)
       ELSE ReturnData([frame EXCEPT
              !.data = [frame.data EXCEPT
                  !.author_name = Array(<<authorData.name>>),
                  !.author_details = [def |-> TRUE, name |-> authorData.name,
                                      bio |-> authorData.bio,
                                      birth_date |-> authorData.birth_date,
                                      death_date |-> authorData.death_date]]])

----------------------------------------------------------------------------
(* The application's getBookDetails call *)

DetailSettled == detail.pc \in {"idle", "fulfilled", "rejected"}

\* the application calls getBookDetails(workId); requests and answers are the
\* history of the call: what it asked for and what it was answered
DetailStart(workId) ==
    /\ DetailSettled
    /\ detail' = getBookDetails(workId)
    /\ UNCHANGED <<browseVars, helperVars>>

\* the fetch of the work record settles
DetailPrimarySettle(response) ==
    /\ detail.pc = "primary"
    /\ detail' = detailsAfterPrimary([detail EXCEPT !.answers = Append(@, response)], response)
    /\ UNCHANGED <<browseVars, helperVars>>

\* response.json() of the work record settles
DetailPrimaryJson ==
    /\ detail.pc = "primaryJson"
    /\ detail' = detailsAfterPrimaryJson(detail)
    /\ UNCHANGED <<browseVars, helperVars>>

\* the fetch of the editions list settles
DetailEditionSettle(response) ==
    /\ detail.pc = "edition"
    /\ detail' = detailsAfterEdition([detail EXCEPT !.answers = Append(@, response)], response)
    /\ UNCHANGED <<browseVars, helperVars>>

\* response.json() of the editions list settles
DetailEditionJson ==
    /\ detail.pc = "editionJson"
    /\ detail' = detailsAfterEditionJson(detail)
    /\ UNCHANGED <<browseVars, helperVars>>

\* the fetch of the author record settles
DetailAuthorSettle(response) ==
    /\ detail.pc = "author"
    /\ detail' = detailsAfterAuthor([detail EXCEPT !.answers = Append(@, response)], response)
    /\ UNCHANGED <<browseVars, helperVars>>

\* response.json() of the author record settles
DetailAuthorJson ==
    /\ detail.pc = "authorJson"
    /\ detail' = detailsAfterAuthorJson(detail)
    /\ UNCHANGED <<browseVars, helperVars>>

----------------------------------------------------------------------------
(* Category helpers: getTrendingBooks, getTopRatedBooks, getRandomBooks *)

TRENDING_FALLBACKS == <<"love", "fiction", "thriller", "adventure", "fantasy">>

TOP_RATED_FALLBACKS == <<"history", "classic_literature", "biography", "science">>

POPULAR_RANDOM_SUBJECTS ==
    <<"adventure", "fantasy", "science_fiction", "romance", "thriller", "mystery">>

\* the values Math.random() may give the elements; equal values are possible
RandomKeys == 1..Len(POPULAR_RANDOM_SUBJECTS)

\* .map(value => ({value, sort})).sort((a, b) => a.sort - b.sort).map(({value}) => value):
\* ascending by key, elements of equal key in their original order
SortByKey(list, sort) ==
    LET Position(i) ==
            1 + Cardinality({j \in DOMAIN list :
                                \/ sort[j] < sort[i]
                                \/ sort[j] = sort[i] /\ j < i})
    IN [k \in DOMAIN list |-> list[CHOOSE i \in DOMAIN list : Position(i) = k]]

\* { genres: [subject], sort: 'relevance', limit }, limit defaulting to 20
SubjectOptions(subject, limit) ==
    BrowseOptions("", <<subject>>, "", "relevance",
                  IF limit = UndefinedNum THEN 20 ELSE limit, UndefinedNum)

\* the loop of a helper enters its iteration for subjects[index]: browseBooks
\* is called and awaited; past the last subject the helper returns []
nextSubject(frame, index) ==
    IF index <= Len(frame.subjects)
    THEN [frame EXCEPT !.pc = "browse", !.index = index,
                       !.call = browseBooks(SubjectOptions(frame.subjects[index], frame.limit))]
    ELSE [frame EXCEPT !.pc = "fulfilled", !.index = index, !.call = IdleFrame, !.value = <<>>]

IdleHelper ==
    [pc |-> "idle", fn |-> "", subjects |-> <<>>, limit |-> UndefinedNum, index |-> 0,
     call |-> IdleFrame, value |-> <<>>, reason |-> NoError, log |-> <<>>]

fallbackLoop(fn, subjects, limit) ==
    nextSubject([IdleHelper EXCEPT !.fn = fn, !.subjects = subjects, !.limit = limit], 1)

getTrendingBooks(limit) == fallbackLoop("getTrendingBooks", TRENDING_FALLBACKS, limit)

getTopRatedBooks(limit) == fallbackLoop("getTopRatedBooks", TOP_RATED_FALLBACKS, limit)

\* sort: the random keys drawn for the six subjects
getRandomBooks(limit, sort) ==
    fallbackLoop("getRandomBooks", SortByKey(POPULAR_RANDOM_SUBJECTS, sort), limit)

\* variant: a failure of browseBooks is not caught
helperAfterBrowse_uncaught(frame, out) ==
    IF out.state = "rejected"
    THEN [frame EXCEPT !.pc = "rejected", !.call = IdleFrame, !.reason = out.reason]
    ELSE IF Len(out.value.books) > 0
    THEN [frame EXCEPT !.pc = "fulfilled", !.call = IdleFrame, !.value = out.value.books]
    ELSE nextSubject(frame, frame.index + 1)

\* variant: an answer from the cache is treated as a failure
helperAfterBrowse_distrustsCache(frame, out) ==
    IF out.state = "rejected" \/ out.source = "cache"
    THEN [frame EXCEPT !.pc = "sleep", !.call = IdleFrame]
    ELSE IF Len(out.value.books) > 0
    THEN [frame EXCEPT !.pc = "fulfilled", !.call = IdleFrame, !.value = out.value.books]
    ELSE nextSubject(frame, frame.index + 1)

\* variant: a failure of browseBooks is caught and the loop goes on at once
helperAfterBrowse_noDelay(frame, out) ==
    IF out.state = "rejected"
    THEN nextSubject(frame, frame.index + 1)
    ELSE IF Len(out.value.books) > 0
    THEN [frame EXCEPT !.pc = "fulfilled", !.call = IdleFrame, !.value = out.value.books]
    ELSE nextSubject(frame, frame.index + 1)

\* variant: the loop goes on after a non-empty sequence and returns the
\* books of the last subject
helperAfterBrowse_lastWins(frame, out) ==
    IF out.state = "rejected"
    THEN [frame EXCEPT !.pc = "sleep", !.call = IdleFrame]
    ELSE IF Len(out.value.books) > 0 /\ frame.index = Len(frame.subjects)
    THEN [frame EXCEPT !.pc = "fulfilled", !.call = IdleFrame, !.value = out.value.books]
    ELSE nextSubject(frame, frame.index + 1)

\* the awaited browseBooks call settled with out:
\* if (books && books.length > 0) return books; catch: await sleep(250)
helperAfterBrowse(frame, out) ==
    IF out.state = "rejected"
    THEN [frame EXCEPT !.pc = "sleep", !.call = IdleFrame]
    ELSE IF Len(out.value.books) > 0
    THEN [frame EXCEPT !.pc = "fulfilled", !.call = IdleFrame, !.value = out.value.books]
    ELSE nextSubject(frame, frame.index + 1)

\* variant: after the delay the same subject is tried again
helperAfterSleep_retries(frame) == nextSubject(frame, frame.index)

\* sleep(250) is over: the loop goes on to the next subject
helperAfterSleep(frame) == nextSubject(frame, frame.index + 1)

\* what the helper's history keeps of a settled browseBooks call; fallback:
\* the failure that made the call answer from the cache, if it did
LogEntry(frame, out) ==
    [subject |-> frame.call.options.genres[1],
     outcome |-> IF out.state = "rejected" THEN "raised"
                 ELSE IF out.value.books = <<>> THEN "empty" ELSE "books",
     fallback |-> IF out.source = "cache" THEN out.failure ELSE ""]

\* the browseBooks call awaited by the helper settles with out, and the
\* helper resumes
HelperResume(out) ==
    /\ cache' = out.store
    /\ fetched' = IF out.source = "fetch"
                  THEN setItem(fetched, helper.call.requestUrl,
                               [docs |-> helper.call.response.docs,
                                numFound |-> helper.call.response.numFound,
                                by |-> helper.call.options])
                  ELSE fetched
    /\ helper' = [helperAfterBrowse(helper, out) EXCEPT
                     !.log = Append(helper.log, LogEntry(helper, out))]

HelperLimits == {UndefinedNum}

\* the application calls one of the three helpers
TrendingStart(limit) ==
    /\ helper.pc = "idle"
    /\ helper' = getTrendingBooks(limit)
    /\ UNCHANGED <<browseVars, detailVars>>

TopRatedStart(limit) ==
    /\ helper.pc = "idle"
    /\ helper' = getTopRatedBooks(limit)
    /\ UNCHANGED <<browseVars, detailVars>>

\* the application calls getTrendingBooks again after an earlier call returned
TrendingAgain(limit) ==
    /\ helper.pc = "fulfilled"
    /\ helper' = getTrendingBooks(limit)
    /\ UNCHANGED <<browseVars, detailVars>>

\* getRandomBooks draws its random keys when it is called
RandomStart(limit) ==
    /\ helper.pc = "idle"
    /\ \E sort \in [DOMAIN POPULAR_RANDOM_SUBJECTS -> RandomKeys] :
          helper' = getRandomBooks(limit, sort)
    /\ UNCHANGED <<browseVars, detailVars>>

\* random keys of three calls: ascending, descending, and with ties
RandomDraws == { <<1, 2, 3, 4, 5, 6>>, <<6, 5, 4, 3, 2, 1>>, <<3, 3, 1, 6, 1, 2>> }

\* getRandomBooks is called and draws one of the keys in draws
RandomStartDrawing(limit, draws) ==
    /\ helper.pc = "idle"
    /\ \E sort \in draws : helper' = getRandomBooks(limit, sort)
    /\ UNCHANGED <<browseVars, detailVars>>

\* fetch settles for the browseBooks call the helper awaits
HelperFetchSettle(response) ==
    /\ helper.pc = "browse"
    /\ helper.call.pc = "fetch"
    /\ LET out == browseAfterFetch(helper.call, response, cache)
       IN IF out.state = "pending"
          THEN /\ helper' = [helper EXCEPT !.call.pc = "json", !.call.response = response]
               /\ UNCHANGED <<cache, fetched>>
          ELSE HelperResume(out)
    /\ UNCHANGED <<catalog, calls, settled, started, detailVars>>

\* response.json() settles for the browseBooks call the helper awaits
HelperJsonSettle ==
    /\ helper.pc = "browse"
    /\ helper.call.pc = "json"
    /\ HelperResume(browseAfterJson(helper.call, cache))
    /\ UNCHANGED <<catalog, calls, settled, started, detailVars>>

\* the timer of sleep(250) fires
HelperWake ==
    /\ helper.pc = "sleep"
    /\ helper' = helperAfterSleep(helper)
    /\ UNCHANGED <<browseVars, detailVars>>

----------------------------------------------------------------------------
(* Specifications *)

\* a fresh session: nothing cached, nothing in flight
Init ==
    /\ catalog = [url \in Urls |-> InitialBody]
    /\ cache = << >>
    /\ calls = [c \in Slots |-> IdleCall]
    /\ settled = NoSettled
    /\ started = 0
    /\ fetched = << >>
    /\ detail = IdleDetail
    /\ helper = IdleHelper

\* the application browses, with up to MaxInFlight calls at once, while the
\* upstream index changes
Next ==
    \/ \E options \in BrowseInputs : BrowseStart(options)
    \/ \E c \in Slots : UpstreamResponds(c)
    \/ \E c \in Slots : BrowseJsonSettle(c)
    \/ \E url \in Urls : \E body \in SearchBodies : UpstreamMutation(url, body)

Spec == Init /\ [][Next]_vars

\* the application makes its first browseBooks call: the request is built
\* and issued
RequestNext == \E options \in RequestInputs : FirstRequest(options)

RequestSpec == Init /\ [][RequestNext]_vars

\* the application looks up book details; the upstream answers each request
\* with any status and body, or fails to
DetailNext ==
    \/ \E workId \in WorkIds : DetailStart(workId)
    \/ \E response \in HttpResponses(Works, NoWork) : DetailPrimarySettle(response)
    \/ DetailPrimaryJson
    \/ \E response \in HttpResponses(EditionsBodies, Undefined) : DetailEditionSettle(response)
    \/ DetailEditionJson
    \/ \E response \in HttpResponses(AuthorBodies, AuthorData(TRUE, "", "", "", "")) :
          DetailAuthorSettle(response)
    \/ DetailAuthorJson

DetailSpec == Init /\ [][DetailNext]_vars

\* one helper call in a fresh session; the upstream answers each subject's
\* request with any body, or fails to
CategoryNext ==
    \/ \E limit \in HelperLimits : TrendingStart(limit)
    \/ \E limit \in HelperLimits : TopRatedStart(limit)
    \/ \E limit \in HelperLimits : RandomStart(limit)
    \/ \E response \in UNION {SearchResponses(body) : body \in SearchBodies} :
          HelperFetchSettle(response)
    \/ HelperJsonSettle
    \/ HelperWake

CategorySpec == Init /\ [][CategoryNext]_vars

\* every fetch and every body read of an awaited browseBooks call settles,
\* and the timer of sleep fires
CategoryFairness ==
    /\ WF_vars(\E response \in UNION {SearchResponses(body) : body \in SearchBodies} :
                 HelperFetchSettle(response))
    /\ WF_vars(HelperJsonSettle)
    /\ WF_vars(HelperWake)

\* one helper call in a fresh session, getRandomBooks with the keys of
\* RandomDraws
FairCategoryNext ==
    \/ \E limit \in HelperLimits : TrendingStart(limit)
    \/ \E limit \in HelperLimits : TopRatedStart(limit)
    \/ \E limit \in HelperLimits : RandomStartDrawing(limit, RandomDraws)
    \/ \E response \in UNION {SearchResponses(body) : body \in SearchBodies} :
          HelperFetchSettle(response)
    \/ HelperJsonSettle
    \/ HelperWake

FairCategorySpec == Init /\ [][FairCategoryNext]_vars /\ CategoryFairness

\* a session of getTrendingBooks calls, one after the other, over one cache
FallbackNext ==
    \/ \E limit \in HelperLimits : TrendingStart(limit)
    \/ \E limit \in HelperLimits : TrendingAgain(limit)
    \/ \E response \in UNION {SearchResponses(body) : body \in SearchBodies} :
          HelperFetchSettle(response)
    \/ HelperJsonSettle
    \/ HelperWake

FallbackSpec == Init /\ [][FallbackNext]_vars

\* the application's only call is a getBookDetails call
OnlyDetailStart(workId) == helper.pc = "idle" /\ DetailStart(workId)

\* the application's only call is a getTrendingBooks or getTopRatedBooks call
OnlyTrendingStart(limit) == detail.pc = "idle" /\ TrendingStart(limit)

OnlyTopRatedStart(limit) == detail.pc = "idle" /\ TopRatedStart(limit)

\* a session of getBookDetails calls, or one call of a fixed-list helper:
\* the steps of a single call, one await after the other
SequenceNext ==
    \/ \E workId \in WorkIds : OnlyDetailStart(workId)
    \/ \E response \in HttpResponses(Works, NoWork) : DetailPrimarySettle(response)
    \/ DetailPrimaryJson
    \/ \E response \in HttpResponses(EditionsBodies, Undefined) : DetailEditionSettle(response)
    \/ DetailEditionJson
    \/ \E response \in HttpResponses(AuthorBodies, AuthorData(TRUE, "", "", "", "")) :
          DetailAuthorSettle(response)
    \/ DetailAuthorJson
    \/ \E limit \in HelperLimits : OnlyTrendingStart(limit)
    \/ \E limit \in HelperLimits : OnlyTopRatedStart(limit)
    \/ \E response \in UNION {SearchResponses(body) : body \in SearchBodies} :
          HelperFetchSettle(response)
    \/ HelperJsonSettle
    \/ HelperWake

SequenceSpec == Init /\ [][SequenceNext]_vars

----------------------------------------------------------------------------
(* Properties of browseBooks *)

HasKey(doc) == doc.key # ""

\* the pair browseBooks makes of a served body
FilteredPair(body) == [books |-> SelectSeq(body.docs, HasKey), total |-> body.numFound]

OwnKey(s) == cacheKey(requestUrl(s.options))

Identifiers(books) == [i \in DOMAIN books |-> books[i].key]

SameListing(a, b) == a.total = b.total /\ Identifiers(a.books) = Identifiers(b.books)

\* C1: a call whose fetch is rejected by the network, for a URL that an
\* earlier call fetched successfully, returns the pair held in the cache for
\* that URL, which is the pair of the last completed successful fetch
CacheFallback ==
    (settled.failure = "network" /\ settled.requestUrl \in DOMAIN fetched)
    => /\ settled.state = "fulfilled"
       /\ settled.value = JSONparse(getItem(cache, OwnKey(settled)))
       /\ settled.value = FilteredPair(fetched[settled.requestUrl])

CacheFallbackWitness ==
    /\ settled.failure = "network"
    /\ settled.state = "fulfilled"
    /\ settled.value.books # <<>>
    /\ settled.requestUrl \in DOMAIN fetched

\* C2: a call that fails in any way for a URL never fetched successfully
\* raises a FetchError
CacheMissRaisesFetchError ==
    (settled.failure # "" /\ settled.requestUrl \notin DOMAIN fetched)
    => /\ settled.state = "rejected"
       /\ settled.reason.name = "FetchError"

\* C7 (state part): every cache entry is the filtered pair of the last
\* completed successful fetch of the URL its key is made of
CacheEntriesFetched ==
    \A k \in DOMAIN cache :
        \E url \in DOMAIN fetched :
            /\ k = cacheKey(url)
            /\ JSONparse(cache[k]) = FilteredPair(fetched[url])

Completes(c) == calls[c].frame.pc # "idle" /\ calls'[c].frame.pc = "idle"

\* C7 (step part): the cache changes only in the step that completes a call
\* whose own fetch succeeded, and only under that call's key; a call whose
\* fetch failed leaves the cache as it was and reads its own key only
CacheWriteStep ==
    /\ cache' # cache => \E c \in Slots : Completes(c) /\ settled'.source = "fetch"
    /\ \A c \in Slots :
          Completes(c) =>
             IF settled'.source = "fetch"
             THEN /\ settled'.wrote = {OwnKey(settled')}
                  /\ \A k \in (DOMAIN cache \cup DOMAIN cache') \ {OwnKey(settled')} :
                        getItem(cache', k) = getItem(cache, k)
             ELSE /\ cache' = cache
                  /\ settled'.wrote = {}
                  /\ settled'.read = {OwnKey(settled')}

\* C7: cache write discipline
CacheWriteDiscipline == []CacheEntriesFetched /\ [][CacheWriteStep]_vars

CacheWriteDisciplineWitness ==
    /\ settled.failure # ""
    /\ settled.source = "cache"
    /\ Cardinality(DOMAIN cache) = 2

\* C8: whatever the interleaving of the calls in flight, a call reads and
\* writes the entry of its own key only, and a pair it returns is the
\* filtered body of a successful fetch of its own URL
ConcurrentCallsKeepToOwnKey ==
    /\ settled.read \cup settled.wrote \subseteq {OwnKey(settled)}
    /\ settled.state = "fulfilled" =>
          /\ settled.requestUrl \in DOMAIN fetched
          /\ settled.value = FilteredPair(fetched[settled.requestUrl])

ConcurrentCallsWitness ==
    /\ settled.state = "fulfilled"
    /\ settled.source = "cache"
    /\ \E c \in Slots :
          /\ calls[c].frame.pc = "json"
          /\ calls[c].frame.requestUrl # settled.requestUrl
          /\ FilteredPair(calls[c].frame.response) # settled.value

\* C9 as stated: of two consecutive calls with the same options and an
\* unchanged upstream that both return, the second returns the listing the
\* first returned
BrowseIdempotent ==
    (~settled.pred.isNone /\ settled.pred.state = "fulfilled" /\ settled.state = "fulfilled")
    => SameListing(settled.pred.value, settled.value)

\* C9 amended: when the first of the two calls returned the result of its own
\* fetch, the second returns, and returns the same listing, whether its fetch
\* succeeds or fails
BrowseIdempotentAfterFetch ==
    (~settled.pred.isNone /\ settled.pred.source = "fetch")
    => /\ settled.state = "fulfilled"
       /\ SameListing(settled.pred.value, settled.value)

BrowseIdempotentWitness ==
    /\ ~settled.pred.isNone
    /\ settled.pred.source = "fetch"
    /\ settled.source = "cache"
    /\ settled.value.books # <<>>

AllIdentified(books) == \A i \in DOMAIN books : books[i].key # ""

\* C15: every book returned by browseBooks and every book of every cache
\* entry has a non-empty identifier; the books returned from a fetch are the
\* served documents with a non-empty identifier, in the served order, and
\* total is the served numFound
IdentifierFilter ==
    /\ settled.state = "fulfilled" => AllIdentified(settled.value.books)
    /\ \A k \in DOMAIN cache : AllIdentified(JSONparse(cache[k]).books)
    /\ settled.source = "fetch" =>
          LET served == fetched[settled.requestUrl]
          IN /\ settled.value.books = SelectSeq(served.docs, HasKey)
             /\ settled.value.total = served.numFound

IdentifierFilterWitness ==
    /\ settled.source = "fetch"
    /\ Len(settled.value.books) = 2
    /\ Len(fetched[settled.requestUrl].docs) = 3
    /\ settled.value.total = 3
    /\ settled.cacheKey \in DOMAIN cache
    /\ JSONparse(cache[settled.cacheKey]) = settled.value

\* a step keeps every cache entry, and a call that completes for a URL
\* fetched successfully before returns a pair
NoEvictionStep ==
    /\ \A k \in DOMAIN cache : k \in DOMAIN cache'
    /\ \A c \in Slots :
          (Completes(c) /\ calls[c].frame.requestUrl \in DOMAIN fetched) =>
              /\ settled'.state = "fulfilled"
              /\ DOMAIN settled'.value = {"books", "total"}

\* C18: after the first successful call for a key the entry of the key is
\* in the cache in every later state, and every later call with that key
\* returns a pair and never raises, whatever its fetch gives
OnceSuccessfulNeverRaising ==
    /\ [](\A url \in DOMAIN fetched :
             /\ cacheKey(url) \in DOMAIN cache
             /\ Truthy(cache[cacheKey(url)]))
    /\ [](settled.state = "rejected" => settled.requestUrl \notin DOMAIN fetched)
    /\ [][NoEvictionStep]_vars

OnceSuccessfulNeverRaisingWitness ==
    /\ settled.state = "fulfilled"
    /\ settled.source = "cache"
    /\ settled.failure = "docs"
    /\ settled.requestUrl \in DOMAIN fetched
    /\ \E url \in DOMAIN fetched : url # settled.requestUrl

\* the value of the parameter called name in a query string
ParamValue(params, name) ==
    params[CHOOSE i \in DOMAIN params : params[i][1] = name][2]

EffectivePage(options) == IF options.page = UndefinedNum THEN 1 ELSE options.page

EffectiveLimit(options) == IF options.limit = UndefinedNum THEN 40 ELSE options.limit

\* C11: the offset of a built request is (page - 1) * limit, and a request
\* built with page and limit omitted carries offset 0 and limit 40
OffsetComputation ==
    \A c \in Slots :
        InFlight(c) =>
            LET options == calls[c].frame.options
                params == calls[c].frame.requestUrl[3]
            IN /\ (options.page >= 1 /\ options.limit >= 1) =>
                      ParamValue(params, "offset")
                          = ToString((options.page - 1) * options.limit)
               /\ (options.page = UndefinedNum /\ options.limit = UndefinedNum) =>
                      /\ ParamValue(params, "offset") = "0"
                      /\ ParamValue(params, "limit") = "40"

OffsetComputationWitness ==
    \E c \in Slots :
        /\ InFlight(c)
        /\ calls[c].frame.options.page = 3
        /\ calls[c].frame.options.limit = 2
        /\ ParamValue(calls[c].frame.requestUrl[3], "offset") = "4"

\* the options that differ from options in page only, and ask for another page
OtherPages(options) ==
    { [options EXCEPT !.page = page] : page \in (1..MaxPage) \ {EffectivePage(options)} }

\* C16: requests that differ only in page have different cache keys, and a
\* call answered from the cache is answered with the pair stored by a call
\* for the same page
PagesKeepOwnFallback ==
    /\ \A c \in Slots :
          InFlight(c) =>
              \A other \in OtherPages(calls[c].frame.options) :
                  cacheKey(requestUrl(other)) # calls[c].frame.cacheKey
    /\ settled.source = "cache" =>
          /\ settled.read = {settled.cacheKey}
          /\ \E url \in DOMAIN fetched :
                /\ cacheKey(url) = settled.cacheKey
                /\ EffectivePage(fetched[url].by) = EffectivePage(settled.options)
                /\ settled.value = FilteredPair(fetched[url])

PagesKeepOwnFallbackWitness ==
    /\ settled.source = "cache"
    /\ settled.options.page = 2
    /\ \E k \in DOMAIN cache : k # settled.cacheKey

----------------------------------------------------------------------------
(* Properties of getBookDetails *)

\* the work record was obtained: success status and a parsable body
PrimaryObtained ==
    /\ Len(detail.answers) >= 1
    /\ detail.answers[1].ok
    /\ detail.answers[1].parsable

PrimaryFailed ==
    /\ Len(detail.answers) >= 1
    /\ ~(detail.answers[1].ok /\ detail.answers[1].parsable)

DetailDone == detail.pc \in {"fulfilled", "rejected"}

\* C3: once the work record is obtained, whatever its author references and
\* whatever the editions and author requests are answered, the call returns
\* a record
EnrichmentNeverFails ==
    (PrimaryObtained /\ DetailDone) => detail.pc = "fulfilled"

\* C4 (state part): a 404 answer to the work request raises BookNotFoundError
\* carrying the work identifier, with no editions or author request issued
NotFoundRaised ==
    (Len(detail.answers) >= 1 /\ detail.answers[1].type = "basic"
        /\ detail.answers[1].status = 404)
    => /\ detail.pc = "rejected"
       /\ detail.reason.name = "BookNotFoundError"
       /\ \E i \in DOMAIN detail.reason.message : detail.reason.message[i] = detail.workId
       /\ Len(detail.requests) = 1
       /\ detail.requests[1].kind = "primary"

\* C4 (step part): no step of the call changes the session cache
DetailKeepsCache == detail' # detail => cache' = cache

\* C4: detail 404
DetailNotFound == []NotFoundRaised /\ [][DetailKeepsCache]_vars

DetailNotFoundWitness ==
    /\ detail.pc = "rejected"
    /\ detail.workId = "OL404W"
    /\ detail.answers[1].status = 404

\* C5: every failure of the work fetch is raised as FetchError or
\* BookNotFoundError
PrimaryFailureIsFetchError ==
    PrimaryFailed
    => /\ detail.pc = "rejected"
       /\ detail.reason.name \in {"FetchError", "BookNotFoundError"}

\* the editions request failed at the network, was answered with a
\* non-success status, or with no entries
EditionLookupFailed ==
    /\ Len(detail.answers) >= 2
    /\ \/ detail.answers[2].type = "error"
       \/ ~detail.answers[2].ok
       \/ /\ detail.answers[2].parsable
          /\ detail.answers[2].json.def
          /\ detail.answers[2].json.list = <<>>

\* C10: when the editions lookup fails the call does not raise, and returns
\* the record with the cover of the work record and no external links
EditionFailureLeavesRecord ==
    (EditionLookupFailed /\ DetailDone)
    => /\ detail.pc = "fulfilled"
       /\ detail.data.cover_i = detail.answers[1].json.cover_i
       /\ ~detail.data.external_links.def

\* the edition answer of the call carried a first edition that was applied
EditionApplied ==
    /\ Len(detail.answers) >= 2
    /\ detail.answers[2].ok
    /\ detail.answers[2].parsable
    /\ detail.answers[2].json.def
    /\ Len(detail.answers[2].json.list) > 0

\* the cover the record has once the edition step is over
CoverAfterEdition ==
    IF EditionApplied /\ Len(detail.answers[2].json.list[1].covers) > 0
    THEN detail.answers[2].json.list[1].covers[1]
    ELSE detail.answers[1].json.cover_i

\* whether the record has external_links once the edition step is over
LinksAfterEdition == EditionApplied /\ detail.answers[2].json.list[1].hasIdentifiers

RequestOrder == <<"primary", "edition", "author">>

\* C13: in one getBookDetails call the requests are issued in the order
\* primary, edition, author, each after the previous one has completed, at
\* most one is in flight, and the author step sees the record as the edition
\* step left it; in one helper call a subject's browse is issued only after
\* the previous subject's browse has completed
StrictlySequential ==
    /\ Len(detail.requests) <= Len(RequestOrder)
    /\ \A i \in DOMAIN detail.requests : detail.requests[i].kind = RequestOrder[i]
    /\ Len(detail.answers) <= Len(detail.requests)
    /\ Len(detail.requests) - Len(detail.answers) <= 1
    /\ Len(detail.requests) - Len(detail.answers) = 1
          <=> detail.pc \in {"primary", "edition", "author"}
    /\ detail.pc \in {"edition", "editionJson"} =>
          /\ Len(detail.requests) = 2
          /\ detail.data = detail.answers[1].json
    /\ detail.pc \in {"author", "authorJson"} =>
          /\ Len(detail.requests) = 3
          /\ detail.data.cover_i = CoverAfterEdition
          /\ detail.data.external_links.def = LinksAfterEdition
          /\ detail.data.authors = detail.answers[1].json.authors
    /\ helper.pc = "browse" =>
          /\ helper.index = Len(helper.log) + 1
          /\ helper.call.pc \in {"fetch", "json"}
          /\ helper.call.options.genres = <<helper.subjects[helper.index]>>
    /\ helper.pc # "browse" => helper.call = IdleFrame

StrictlySequentialWitness ==
    /\ detail.pc = "author"
    /\ Len(detail.answers) = 2
    /\ EditionApplied
    /\ detail.data.cover_i # detail.answers[1].json.cover_i
    /\ detail.data.external_links.def

\* the author request was answered by a network error or a non-success status
AuthorLookupFailed ==
    /\ Len(detail.answers) = 3
    /\ (detail.answers[3].type = "error" \/ ~detail.answers[3].ok)

\* C17: when the author request fails, the call returns the record with the
\* author names of the work record and no author details, and with the cover
\* and external links the edition step gave it
AuthorFailureKeepsFields ==
    (AuthorLookupFailed /\ DetailSettled) =>
        /\ detail.pc = "fulfilled"
        /\ detail.data.author_name = detail.answers[1].json.author_name
        /\ ~detail.data.author_details.def
        /\ detail.data.cover_i = CoverAfterEdition
        /\ detail.data.external_links.def = LinksAfterEdition

AuthorFailureKeepsFieldsWitness ==
    /\ AuthorLookupFailed
    /\ detail.pc = "fulfilled"
    /\ ~detail.answers[3].ok
    /\ detail.answers[3].type = "basic"
    /\ detail.data.author_name.def
    /\ EditionApplied
    /\ detail.data.external_links.def
    /\ detail.data.cover_i # detail.answers[1].json.cover_i

----------------------------------------------------------------------------
(* Properties of the category helpers *)

CandidateList(fn) ==
    IF fn = "getTrendingBooks" THEN TRENDING_FALLBACKS
    ELSE IF fn = "getTopRatedBooks" THEN TOP_RATED_FALLBACKS
    ELSE POPULAR_RANDOM_SUBJECTS

\* every subject of the helper's candidate list was queried and either
\* raised or returned no books
AllSubjectsFailedOrEmpty ==
    \A i \in DOMAIN CandidateList(helper.fn) :
        \E j \in DOMAIN helper.log :
            /\ helper.log[j].subject = CandidateList(helper.fn)[i]
            /\ helper.log[j].outcome \in {"raised", "empty"}

\* C6: a helper never raises, and what it returns is empty exactly when
\* every subject of its candidate list failed or returned zero books
HelpersDegradeToEmpty ==
    /\ helper.pc # "rejected"
    /\ helper.pc = "fulfilled" => (helper.value = <<>> <=> AllSubjectsFailedOrEmpty)

HelpersDegradeToEmptyWitness ==
    /\ helper.pc = "fulfilled"
    /\ helper.fn = "getRandomBooks"
    /\ helper.value = <<>>
    /\ \E j \in DOMAIN helper.log : helper.log[j].outcome = "raised"
    /\ \E j \in DOMAIN helper.log : helper.log[j].outcome = "empty"

\* the order in which the running helper call goes through its subjects:
\* the fixed list, or for getRandomBooks the shuffled list of this call
QueryOrder ==
    IF helper.fn = "getRandomBooks" THEN helper.subjects ELSE CandidateList(helper.fn)

\* C12: the subjects are queried in list order (for getRandomBooks in the
\* shuffled order), the call returns the books of the first subject whose
\* browse call returned a non-empty sequence, and no subject after that one
\* is queried
FirstSuccessWins ==
    helper.pc # "idle" =>
        /\ Len(helper.log) <= Len(QueryOrder)
        /\ \A i \in DOMAIN helper.log : helper.log[i].subject = QueryOrder[i]
        /\ helper.pc = "browse" =>
               /\ Len(helper.log) < Len(QueryOrder)
               /\ helper.call.options
                     = SubjectOptions(QueryOrder[Len(helper.log) + 1], helper.limit)
        /\ \A i \in DOMAIN helper.log :
               helper.log[i].outcome = "books" =>
                   /\ i = Len(helper.log)
                   /\ helper.pc = "fulfilled"
                   /\ helper.value
                        = FilteredPair(fetched[requestUrl(
                              SubjectOptions(QueryOrder[i], helper.limit))]).books
        /\ (helper.pc = "fulfilled" /\ helper.value # <<>>) =>
               helper.log[Len(helper.log)].outcome = "books"

FirstSuccessWinsWitness ==
    /\ helper.pc = "fulfilled"
    /\ helper.fn = "getTrendingBooks"
    /\ Len(helper.log) = 3
    /\ helper.log[1].outcome = "empty"
    /\ helper.log[2].outcome = "raised"
    /\ helper.log[3].outcome = "books"
    /\ helper.value # <<>>

\* a browseBooks call of the helper settles in this step
BrowseSettles == Len(helper'.log) = Len(helper.log) + 1

\* a step of a helper call: the delay is entered exactly when a browse call
\* raised, and the delay is followed by the next subject or the empty result
DelayStep ==
    /\ BrowseSettles =>
          (helper'.pc = "sleep" <=> helper'.log[Len(helper'.log)].outcome = "raised")
    /\ (helper'.pc = "sleep" /\ helper.pc # "sleep") => BrowseSettles
    /\ helper.pc = "sleep" =>
          /\ helper.log[Len(helper.log)].outcome = "raised"
          /\ helper'.log = helper.log
          /\ \/ /\ helper'.pc = "browse"
                /\ helper'.index = helper.index + 1
                /\ helper'.call.pc = "fetch"
             \/ /\ helper'.pc = "fulfilled"
                /\ helper'.value = <<>>
                /\ helper.index = Len(helper.subjects)

\* C14: after every subject whose browse call raised a delay is performed
\* before the next subject is queried or the empty result returned, and no
\* delay is performed after a subject whose browse call returned
DelayFollowsFailureOnly == [][DelayStep]_vars

DelayFollowsFailureOnlyWitness ==
    /\ helper.pc = "fulfilled"
    /\ helper.value = <<>>
    /\ helper.fn = "getTopRatedBooks"
    /\ helper.log[1].outcome = "empty"
    /\ helper.log[2].outcome = "raised"
    /\ helper.log[Len(helper.log)].outcome = "raised"

Elements(list) == {list[i] : i \in DOMAIN list}

IsPermutation(list, of) ==
    /\ Len(list) = Len(of)
    /\ Elements(list) = Elements(of)
    /\ \A i, j \in DOMAIN list : list[i] = list[j] => i = j

\* the browseBooks calls the running helper call has made so far
BrowseCalls == Len(helper.log) + (IF helper.pc = "browse" THEN 1 ELSE 0)

\* the helper returned because its loop ran out of subjects
Exhausted == helper.pc = "fulfilled" /\ helper.index > Len(helper.subjects)

LoopBounded ==
    helper.pc # "idle" =>
        /\ Len(TRENDING_FALLBACKS) = 5
        /\ Len(TOP_RATED_FALLBACKS) = 4
        /\ Len(POPULAR_RANDOM_SUBJECTS) = 6
        /\ BrowseCalls <= Len(CandidateList(helper.fn))
        /\ \A i, j \in DOMAIN helper.log :
               helper.log[i].subject = helper.log[j].subject => i = j
        /\ Elements([i \in DOMAIN helper.log |-> helper.log[i].subject])
               \subseteq Elements(CandidateList(helper.fn))
        /\ Exhausted =>
               /\ Len(helper.log) = Len(CandidateList(helper.fn))
               /\ Elements([i \in DOMAIN helper.log |-> helper.log[i].subject])
                     = Elements(CandidateList(helper.fn))
        /\ helper.fn = "getRandomBooks" =>
               IsPermutation(helper.subjects, POPULAR_RANDOM_SUBJECTS)

\* whatever keys are drawn, the shuffle gives a permutation of the list
ShufflePermutes ==
    \A sort \in [DOMAIN POPULAR_RANDOM_SUBJECTS -> RandomKeys] :
        IsPermutation(SortByKey(POPULAR_RANDOM_SUBJECTS, sort), POPULAR_RANDOM_SUBJECTS)

\* C19: when every browse call completes, a helper call returns after at most
\* as many browse calls as its list has subjects (5, 4, 6); a subject is
\* queried at most once, on exhaustion every subject was queried exactly
\* once, and getRandomBooks queries a permutation of its list
BoundedFallbackLoop ==
    /\ ShufflePermutes
    /\ []LoopBounded
    /\ (helper.pc # "idle") ~> (helper.pc = "fulfilled")

BoundedFallbackLoopWitness ==
    /\ Exhausted
    /\ helper.fn = "getRandomBooks"
    /\ helper.subjects # POPULAR_RANDOM_SUBJECTS
    /\ Len(helper.log) = Len(POPULAR_RANDOM_SUBJECTS)
    /\ \E i \in DOMAIN helper.log : helper.log[i].outcome = "raised"

SubjectKey(subject) == cacheKey(requestUrl(SubjectOptions(subject, helper.limit)))

\* the books the cache holds for subject, none if it holds no entry
CachedBooks(subject) ==
    IF SubjectKey(subject) \in DOMAIN cache
    THEN JSONparse(cache[SubjectKey(subject)]).books
    ELSE <<>>

\* a step in which the awaited browse call settles: with an entry under the
\* call's key the call does not raise, and when the fetch failed at the
\* network layer the cached books are returned if there are any, the loop
\* goes on without delay if there are none
FallbackStep ==
    (BrowseSettles /\ helper.call.cacheKey \in DOMAIN cache) =>
        LET entry == helper'.log[Len(helper'.log)]
            cached == JSONparse(cache[helper.call.cacheKey]).books
        IN /\ entry.outcome # "raised"
           /\ helper'.pc # "sleep"
           /\ entry.fallback = "network" =>
                 /\ cache' = cache
                 /\ IF cached # <<>>
                    THEN helper'.pc = "fulfilled" /\ helper'.value = cached
                    ELSE \/ /\ helper'.pc = "browse"
                            /\ helper'.index = helper.index + 1
                         \/ /\ helper'.pc = "fulfilled"
                            /\ helper'.value = <<>>
                            /\ helper.index = Len(helper.subjects)

\* no fetch of the call succeeded
NetworkDown ==
    \A i \in DOMAIN helper.log :
        helper.log[i].outcome = "raised" \/ helper.log[i].fallback = "network"

\* the subjects of the list that have a non-empty cache entry
CachedSubjects == {i \in DOMAIN helper.subjects : CachedBooks(helper.subjects[i]) # <<>>}

\* C20: a subject whose request fails at the network layer while the cache
\* holds an entry for its key is not treated as failed: no delay, the cached
\* books are returned if non-empty, else the next subject is tried; with the
\* network down the helper returns the cached books of the first subject in
\* order that has a non-empty cache entry
HelpersInheritFallback ==
    /\ [][FallbackStep]_vars
    /\ []((helper.pc = "fulfilled" /\ NetworkDown /\ CachedSubjects # {}) =>
             \E i \in CachedSubjects :
                 /\ \A j \in CachedSubjects : i <= j
                 /\ helper.value = CachedBooks(helper.subjects[i])
                 /\ Len(helper.log) = i)

HelpersInheritFallbackWitness ==
    /\ helper.pc = "fulfilled"
    /\ NetworkDown
    /\ helper.value # <<>>
    /\ Len(helper.log) > 2
    /\ helper.log[Len(helper.log)].fallback = "network"
    /\ \E i \in DOMAIN helper.log :
          helper.log[i].outcome = "empty" /\ helper.log[i].fallback = "network"
    /\ \E i \in DOMAIN helper.log : helper.log[i].outcome = "raised"

====
